---- MODULE Spec2Model ----
(***************************************************************************)
(* Contexter: the fenced-block snapshot codec (parse_md_constructor and    *)
(* the encoder of updater.py), the diff engine (update_context.py) and the *)
(* patch applier (updater.py), the patch container (_parse_md_patch) and   *)
(* the context file of the server (build_context_md, smart_update_md).     *)
(*                                                                         *)
(* A text is modelled by the sequence text.split("\n") of its lines, which *)
(* is never empty: "" is <<"">> and "x\n" is <<"x", "">>.  A line is a     *)
(* string of a small alphabet on which strip() is given by a table.        *)
(* A snapshot is a function from a set of paths to entries; the Python     *)
(* value None of a binary entry is the record Binary.                      *)
(***************************************************************************)
EXTENDS Integers, Sequences, FiniteSets, TLC

\* ------------------------------------------------------------------ bounds

\* The longest container, in lines, handed to parse_md_constructor as it is.
MaxDocLines == 4

\* The longest text, in lines, of a snapshot entry.
MaxLines == 2

\* The longest text, in lines, that the patch containers of the apply runs
\* were written from.
MaxPatchLines == 1

\* The longest path, in parts between separators, of a container given to
\* the reconstruction tools.
MaxPathParts == 4

\* ------------------------------------------------------------------ paths

\* The paths of the snapshots, in the order sorted() gives them.
SortedPaths == <<"a.py", "b.txt">>

Paths == {SortedPaths[i] : i \in 1..Len(SortedPaths)}

\* sorted(S) for a set S of paths.
RECURSIVE SortedFrom(_, _)
SortedFrom(S, i) ==
    IF i > Len(SortedPaths) THEN <<>>
    ELSE IF SortedPaths[i] \in S THEN <<SortedPaths[i]>> \o SortedFrom(S, i + 1)
    ELSE SortedFrom(S, i + 1)

Sorted(S) == SortedFrom(S, 1)

get_language_from_path(file_path) ==
    CASE file_path = "a.py" -> "python"
      [] file_path = "b.txt" -> "txt"
      [] OTHER -> "text"

\* ------------------------------------------------------------------ lines

\* The four-backtick fence of the container, written without the backtick
\* character.
Fence == "[fence4]"

\* The lines a text of the codec runs is made of: a plain line, the empty
\* line, an indented line and a line that is the fence.
CodecLines == {"x", "", " x", Fence}

\* The lines a text of the diff and apply runs is made of.
DiffLines == {"x", ""}

\* str.strip(), str.lstrip() and str.rstrip() of one line.
LStripLine(l) == IF l = " x" THEN "x" ELSE l

RStripLine(l) == l

StripLine(l) == LStripLine(RStripLine(l))

IsBlank(l) == StripLine(l) = ""

\* ------------------------------------------------------------------ text

Last(s) == s[Len(s)]

Front(s) == SubSeq(s, 1, Len(s) - 1)

\* "\n".join(lines), as the sequence of the lines of the joined text.
Join(lines) == IF lines = <<>> THEN <<"">> ELSE lines

\* str.splitlines(): the lines of a text, a final line break ending the last
\* line instead of starting an empty one.
SplitLines(text) == IF Last(text) = "" THEN Front(text) ELSE text

RECURSIVE DropLeadingBlank(_)
DropLeadingBlank(lines) ==
    IF lines = <<>> THEN <<>>
    ELSE IF IsBlank(Head(lines)) THEN DropLeadingBlank(Tail(lines))
    ELSE lines

RECURSIVE DropTrailingBlank(_)
DropTrailingBlank(lines) ==
    IF lines = <<>> THEN <<>>
    ELSE IF IsBlank(Last(lines)) THEN DropTrailingBlank(Front(lines))
    ELSE lines

\* str.strip() of a text: white space, line breaks included, is removed at
\* both ends.
StripEnds(core) ==
    IF core = <<>> THEN <<"">>
    ELSE IF Len(core) = 1 THEN <<StripLine(core[1])>>
    ELSE <<LStripLine(core[1])>> \o SubSeq(core, 2, Len(core) - 1)
         \o <<RStripLine(Last(core))>>

StripText(text) == StripEnds(DropTrailingBlank(DropLeadingBlank(text)))

\* The texts of at most n lines over an alphabet.
RECURSIVE SeqsOfLen(_, _)
SeqsOfLen(A, n) ==
    IF n = 0 THEN {<<>>}
    ELSE {<<h>> \o t : h \in A, t \in SeqsOfLen(A, n - 1)}

TextsUpTo(A, n) == UNION {SeqsOfLen(A, k) : k \in 1..n}

\* ------------------------------------------------------------------ snapshots

Binary == [bin |-> TRUE, text |-> <<>>]

Text(t) == [bin |-> FALSE, text |-> t]

Entries(A, n) == {Binary} \cup {Text(t) : t \in TextsUpTo(A, n)}

Snapshots(A, n) == UNION {[D -> Entries(A, n)] : D \in SUBSET Paths}

EmptySnapshot == [p \in {} |-> Binary]

\* dict.get(path) or "": the text of an entry, the empty text when the path
\* is missing or the entry is None.
GetOrEmpty(snapshot, path) ==
    IF path \in DOMAIN snapshot /\ ~snapshot[path].bin
    THEN snapshot[path].text
    ELSE <<"">>

Without(f, p) == [q \in DOMAIN f \ {p} |-> f[q]]

With(f, p, v) == [q \in DOMAIN f \cup {p} |-> IF q = p THEN v ELSE f[q]]

\* ------------------------------------------------------------------ container lines

FileHeader(path) == "--- FILE: " \o path \o " ---"

BinaryHeader(path) == "--- SKIPPED (BINARY): " \o path \o " ---"

\* header_pattern.match(line): the header's type and path, or no match.
NoMatch == [matched |-> FALSE, file_type |-> "", path |-> ""]

header_pattern(line) ==
    IF \E p \in Paths : line = FileHeader(p)
    THEN [matched |-> TRUE, file_type |-> "FILE",
          path |-> CHOOSE p \in Paths : line = FileHeader(p)]
    ELSE IF \E p \in Paths : line = BinaryHeader(p)
    THEN [matched |-> TRUE, file_type |-> "SKIPPED (BINARY)",
          path |-> CHOOSE p \in Paths : line = BinaryHeader(p)]
    ELSE NoMatch

Languages == {get_language_from_path(p) : p \in Paths}

\* line.startswith of the four backticks.
StartsWithFence(line) == line = Fence \/ \E lang \in Languages : line = Fence \o lang

\* ------------------------------------------------------------------ encoder

\* The lines the updater writes for one entry.
EncodeEntry(path, entry) ==
    IF entry.bin
    THEN <<BinaryHeader(path), "">>
    ELSE <<FileHeader(path), "", Fence \o get_language_from_path(path)>>
         \o StripText(entry.text) \o <<Fence, "">>

RECURSIVE EncodeFrom(_, _)
EncodeFrom(snapshot, keys) ==
    IF keys = <<>> THEN <<>>
    ELSE EncodeEntry(Head(keys), snapshot[Head(keys)]) \o EncodeFrom(snapshot, Tail(keys))

\* The container the updater writes for a snapshot, in sorted path order.
Encode(snapshot) == EncodeFrom(snapshot, Sorted(DOMAIN snapshot))

\* ------------------------------------------------------------------ difflib

\* The number of context lines of difflib.unified_diff, which the diff
\* engine calls without giving n.
ContextLines == 3

Max(x, y) == IF x >= y THEN x ELSE y

Min(x, y) == IF x <= y THEN x ELSE y

\* SequenceMatcher.find_longest_match on a[alo:ahi] and b[blo:bhi] (indices
\* from 0 as in Python): <<i, j, k>> with a[i:i+k] = b[j:j+k], k the greatest,
\* then i the least, then j the least; k = 0 when nothing matches.
find_longest_match(a, b, alo, ahi, blo, bhi) ==
    LET IsMatch(i, j, k) == \A d \in 0..(k - 1) : a[i + d + 1] = b[j + d + 1]
        C == {m \in (alo..(ahi - 1)) \X (blo..(bhi - 1)) \X (1..(ahi - alo)) :
                /\ m[1] + m[3] <= ahi
                /\ m[2] + m[3] <= bhi
                /\ IsMatch(m[1], m[2], m[3])}
        Before(m, o) ==
            \/ m[3] > o[3]
            \/ m[3] = o[3] /\ m[1] < o[1]
            \/ m[3] = o[3] /\ m[1] = o[1] /\ m[2] <= o[2]
    IN  IF C = {} THEN <<alo, blo, 0>>
        ELSE CHOOSE m \in C : \A o \in C : Before(m, o)

\* SequenceMatcher.get_matching_blocks, without the final sentinel.
RECURSIVE MatchingBlocksIn(_, _, _, _, _, _)
MatchingBlocksAround(a, b, alo, ahi, blo, bhi, m) ==
    IF m[3] = 0 THEN <<>>
    ELSE MatchingBlocksIn(a, b, alo, m[1], blo, m[2])
         \o <<m>>
         \o MatchingBlocksIn(a, b, m[1] + m[3], ahi, m[2] + m[3], bhi)

MatchingBlocksIn(a, b, alo, ahi, blo, bhi) ==
    MatchingBlocksAround(a, b, alo, ahi, blo, bhi,
                         find_longest_match(a, b, alo, ahi, blo, bhi))

get_matching_blocks(a, b) ==
    MatchingBlocksIn(a, b, 0, Len(a), 0, Len(b)) \o <<(<<Len(a), Len(b), 0>>)>>

Opcode(tag, i1, i2, j1, j2) == [tag |-> tag, i1 |-> i1, i2 |-> i2, j1 |-> j1, j2 |-> j2]

\* SequenceMatcher.get_opcodes.
RECURSIVE OpcodesFrom(_, _, _)
OpcodesFrom(blocks, i, j) ==
    IF blocks = <<>> THEN <<>>
    ELSE LET ai == Head(blocks)[1]
             bj == Head(blocks)[2]
             size == Head(blocks)[3]
             change ==
                 IF i < ai /\ j < bj THEN <<Opcode("replace", i, ai, j, bj)>>
                 ELSE IF i < ai THEN <<Opcode("delete", i, ai, j, bj)>>
                 ELSE IF j < bj THEN <<Opcode("insert", i, ai, j, bj)>>
                 ELSE <<>>
             equal ==
                 IF size > 0 THEN <<Opcode("equal", ai, ai + size, bj, bj + size)>>
                 ELSE <<>>
         IN  change \o equal \o OpcodesFrom(Tail(blocks), ai + size, bj + size)

get_opcodes(a, b) == OpcodesFrom(get_matching_blocks(a, b), 0, 0)

\* SequenceMatcher.get_grouped_opcodes(n): the opcodes with the unchanged
\* runs cut to n lines of context, split where a run is longer than 2n.
RECURSIVE GroupsFrom(_, _, _)
GroupsFrom(codes, group, n) ==
    IF codes = <<>>
    THEN IF group # <<>> /\ ~(Len(group) = 1 /\ group[1].tag = "equal")
         THEN <<group>>
         ELSE <<>>
    ELSE LET c == Head(codes)
         IN  IF c.tag = "equal" /\ c.i2 - c.i1 > n + n
             THEN <<Append(group, Opcode(c.tag, c.i1, Min(c.i2, c.i1 + n),
                                         c.j1, Min(c.j2, c.j1 + n)))>>
                  \o GroupsFrom(Tail(codes),
                                <<Opcode(c.tag, Max(c.i1, c.i2 - n), c.i2,
                                         Max(c.j1, c.j2 - n), c.j2)>>, n)
             ELSE GroupsFrom(Tail(codes), Append(group, c), n)

\* The opcodes, or one empty 'equal' when there is none.
OrOneEqual(codes) == IF codes = <<>> THEN <<Opcode("equal", 0, 1, 0, 1)>> ELSE codes

\* A leading and a trailing run of unchanged lines are cut to n lines.
TrimFirst(codes, n) ==
    LET f == codes[1]
    IN  IF f.tag = "equal"
        THEN <<Opcode(f.tag, Max(f.i1, f.i2 - n), f.i2, Max(f.j1, f.j2 - n), f.j2)>>
             \o Tail(codes)
        ELSE codes

TrimLast(codes, n) ==
    LET l == Last(codes)
    IN  IF l.tag = "equal"
        THEN Front(codes)
             \o <<Opcode(l.tag, l.i1, Min(l.i2, l.i1 + n), l.j1, Min(l.j2, l.j1 + n))>>
        ELSE codes

get_grouped_opcodes(a, b, n) ==
    GroupsFrom(TrimLast(TrimFirst(OrOneEqual(get_opcodes(a, b)), n), n), <<>>, n)

\* One line of a unified diff: the file headers "--- path" and "+++ path"
\* (t is "---" or "+++", s the path), a hunk header "@@ -a,b +c,d @@" (t is
\* "@@", r is <<a, b, c, d>>) or a line of a hunk (t is " ", "-" or "+", s the
\* line).
DiffLine(t, s) == [t |-> t, s |-> s, r |-> <<0, 0, 0, 0>>]

HunkHeader(r) == [t |-> "@@", s |-> "", r |-> r]

\* difflib._format_range_unified: the start printed for lines start..stop.
RangeStart(start, stop) == IF stop - start = 0 THEN start ELSE start + 1

Prefixed(t, lines) == [k \in 1..Len(lines) |-> DiffLine(t, lines[k])]

RECURSIVE GroupLines(_, _, _)
GroupLines(a, b, group) ==
    IF group = <<>> THEN <<>>
    ELSE LET c == Head(group)
             old == SubSeq(a, c.i1 + 1, c.i2)
             new == SubSeq(b, c.j1 + 1, c.j2)
             here ==
                 IF c.tag = "equal" THEN Prefixed(" ", old)
                 ELSE (IF c.tag \in {"replace", "delete"} THEN Prefixed("-", old) ELSE <<>>)
                      \o (IF c.tag \in {"replace", "insert"} THEN Prefixed("+", new) ELSE <<>>)
         IN  here \o GroupLines(a, b, Tail(group))

RECURSIVE HunksText(_, _, _)
HunksText(a, b, groups) ==
    IF groups = <<>> THEN <<>>
    ELSE LET g == Head(groups)
             first == g[1]
             last == Last(g)
         IN  <<HunkHeader(<<RangeStart(first.i1, last.i2), last.i2 - first.i1,
                            RangeStart(first.j1, last.j2), last.j2 - first.j1>>)>>
             \o GroupLines(a, b, g)
             \o HunksText(a, b, Tail(groups))

\* difflib.unified_diff(a, b, fromfile, tofile, lineterm=''): the lines of
\* the diff, none when a and b are the same lines.
DiffText(a, b, fromfile, tofile, groups) ==
    IF groups = <<>> THEN <<>>
    ELSE <<DiffLine("---", fromfile), DiffLine("+++", tofile)>>
         \o HunksText(a, b, groups)

unified_diff(a, b, fromfile, tofile) ==
    DiffText(a, b, fromfile, tofile, get_grouped_opcodes(a, b, ContextLines))

\* ------------------------------------------------------------------ patch library

\* The object the patch library returns for the text of one DIFF FOR block:
\* its hunks, each with the old and new ranges of its header and its lines.
Hunk(r, lines) ==
    [old_start |-> r[1], old_len |-> r[2], new_start |-> r[3], new_len |-> r[4],
     lines |-> lines]

RECURSIVE HunkLinesOf(_)
HunkLinesOf(diff) ==
    IF diff = <<>> \/ Head(diff).t \notin {" ", "-", "+"} THEN <<>>
    ELSE <<Head(diff)>> \o HunkLinesOf(Tail(diff))

\* patch.fromstring(text).hunks
RECURSIVE fromstring(_)
fromstring(diff) ==
    IF diff = <<>> THEN <<>>
    ELSE IF Head(diff).t = "@@"
    THEN <<Hunk(Head(diff).r, HunkLinesOf(Tail(diff)))>> \o fromstring(Tail(diff))
    ELSE fromstring(Tail(diff))

RECURSIVE SideOf(_, _)
SideOf(lines, tags) ==
    IF lines = <<>> THEN <<>>
    ELSE (IF Head(lines).t \in tags THEN <<Head(lines).s>> ELSE <<>>)
         \o SideOf(Tail(lines), tags)

OldSide(hunk) == SideOf(hunk.lines, {" ", "-"})

NewSide(hunk) == SideOf(hunk.lines, {" ", "+"})

AddedLines(hunk) == SideOf(hunk.lines, {"+"})

\* The hunks applied in order to the lines of a text, each at its stated
\* offset, moved by what the hunks before it added and removed; the old side
\* of a hunk must be the lines found there.
RECURSIVE ApplyHunks(_, _, _)
ApplyHunks(hunks, lines, delta) ==
    IF hunks = <<>> THEN [ok |-> TRUE, lines |-> lines]
    ELSE LET h == Head(hunks)
             at == (IF h.old_len = 0 THEN h.old_start ELSE h.old_start - 1) + delta
         IN  IF /\ Len(OldSide(h)) = h.old_len
                /\ at >= 0
                /\ at + h.old_len <= Len(lines)
                /\ SubSeq(lines, at + 1, at + h.old_len) = OldSide(h)
             THEN ApplyHunks(Tail(hunks),
                             SubSeq(lines, 1, at) \o NewSide(h)
                             \o SubSeq(lines, at + h.old_len + 1, Len(lines)),
                             delta + Len(NewSide(h)) - h.old_len)
             ELSE [ok |-> FALSE, lines |-> lines]

\* patch_set.apply(content).decode('utf-8'): the patched text, or a failure.
Patched(res) == [ok |-> res.ok, text |-> Join(res.lines)]

patch_apply(hunks, text) == Patched(ApplyHunks(hunks, SplitLines(text), 0))

\* ------------------------------------------------------------------ state

VARIABLES
    pc,               \* the step the run is at
    original_files,   \* the snapshot parsed from the original container
    modified_files,   \* update_context: the snapshot parsed from the modified container
    all_keys,         \* update_context: the paths the diff loop has still to visit
    patch_file,       \* the patch container: its DIFF FOR blocks, in file order
    patches_to_apply, \* updater: path -> the hunks of its parsed patch
    remaining,        \* updater: the paths the apply loop has still to visit
    updated_files,    \* updater: the snapshot being rebuilt
    log,              \* updater: what it printed per path, <<what, path>>
    out_written,      \* updater: the output container was opened and written
    out_file,         \* updater: the lines of the output container
    line_no,          \* parse_md_constructor: lines of out_file read so far
    files,            \* parse_md_constructor: the snapshot being built
    current_file,     \* parse_md_constructor: path of the open entry, "" for None
    in_code_block,    \* parse_md_constructor
    content_lines,    \* parse_md_constructor
    unavailable,      \* the input files that cannot be opened
    patch_opened,     \* update_context: the patch container was opened for writing
    patch_texts,      \* _parse_md_patch: path -> the lines handed to patch.fromstring
    source_dir,       \* server: the files of the source directory, path -> text
    context_md,       \* server: the lines of the context file
    writes,           \* server: how many times the context file was written
    result,           \* server: the FileOpResult of the last tool call
    input_path,       \* sanitize_context: the file read, its lines and final newline
    output_path,      \* sanitize_context: the file written
    second_output,    \* sanitize_context: the file written by a run on output_path
    project_dir,      \* smart_update: the files of the project, path -> entry
    cache_dir,        \* smart_update: the files of .contexter_cache
    changes,          \* smart_update: what the last dry run reported
    patch_output_file,\* smart_update: the DIFF FOR blocks of the last run
    files_to_create,  \* reconstruction: the paths of the parsed container
    created           \* reconstruction: where each file was written

vars == <<pc, original_files, modified_files, all_keys, patch_file, patches_to_apply,
          remaining, updated_files, log, out_written, out_file, line_no, files,
          current_file, in_code_block, content_lines, unavailable, patch_opened,
          patch_texts, source_dir, context_md, writes, result, input_path,
          output_path, second_output, project_dir, cache_dir, changes,
          patch_output_file, files_to_create, created>>

diff_vars == <<modified_files, all_keys>>

apply_vars == <<patches_to_apply, remaining, updated_files, log>>

parse_vars == <<line_no, files, current_file, in_code_block, content_lines>>

source_vars == <<unavailable, patch_opened>>

server_vars == <<source_dir, context_md, writes, result>>

\* The variables of the sanitizer, smartupdate and the reconstruction tools.
tool_vars ==
    <<input_path, output_path, second_output, project_dir, cache_dir, changes,
      patch_output_file, files_to_create, created>>

\* The variables of the diff engine, the updater, the parsers and the server.
other_vars ==
    <<original_files, patch_file, diff_vars, apply_vars, out_written, out_file,
      parse_vars, source_vars, patch_texts, server_vars>>

NoPatches == [p \in {} |-> <<>>]

NoTexts == [p \in {} |-> <<>>]

\* No tool of the server has been called.
NoResult == [success |-> FALSE, message |-> "", files_processed |-> 0]

ServerIdle ==
    /\ source_dir = [p \in {} |-> <<>>]
    /\ context_md = <<>>
    /\ writes = 0
    /\ result = NoResult

\* A file of lines: the lines, and whether the last one ends with a newline.
NoFile == [lines |-> <<>>, nl |-> TRUE]

\* The sanitizer, smartupdate and the reconstruction tools have not run.
ToolsIdle ==
    /\ input_path = NoFile
    /\ output_path = NoFile
    /\ second_output = NoFile
    /\ project_dir = [p \in {} |-> <<>>]
    /\ cache_dir = [p \in {} |-> <<>>]
    /\ changes = [added |-> {}, deleted |-> {}, modified |-> {}]
    /\ patch_output_file = <<>>
    /\ files_to_create = {}
    /\ created = {}

ParserIdle ==
    /\ line_no = 0
    /\ files = EmptySnapshot
    /\ current_file = ""
    /\ in_code_block = FALSE
    /\ content_lines = <<>>

\* ------------------------------------------------------------------ update_context.py

\* A parser returned None: update_context returns before it opens its output.
UpdateContextUnavailable ==
    /\ pc = "update_context"
    /\ unavailable \cap {"original_md", "modified_md"} # {}
    /\ pc' = "unavailable"
    /\ UNCHANGED <<original_files, patch_file, diff_vars, apply_vars, out_written,
                   out_file, parse_vars, source_vars, patch_texts, server_vars>>
    /\ UNCHANGED tool_vars

\* Both containers are parsed: the patch container is opened, which empties
\* it, and the paths of the two snapshots are sorted.
UpdateContextStart ==
    /\ pc = "update_context"
    /\ unavailable \cap {"original_md", "modified_md"} = {}
    /\ patch_opened' = TRUE
    /\ patch_file' = <<>>
    /\ all_keys' = Sorted(DOMAIN original_files \cup DOMAIN modified_files)
    /\ pc' = "diff"
    /\ UNCHANGED <<original_files, modified_files, apply_vars, out_written, out_file,
                   parse_vars, unavailable, patch_texts, server_vars>>
    /\ UNCHANGED tool_vars

\* One DIFF FOR block of the patch container.
Block(path, diff) == [path |-> path, diff |-> diff]

\* Mutant of diff_for: the comparison of the two contents left out.
diff_for_always(original, modified, file_path) ==
    <<Block(file_path,
            unified_diff(SplitLines(GetOrEmpty(original, file_path)),
                         SplitLines(GetOrEmpty(modified, file_path)),
                         file_path, file_path))>>

\* The body of the diff loop for one path: the blocks it writes.
diff_for(original, modified, file_path) ==
    LET original_content == GetOrEmpty(original, file_path)
        modified_content == GetOrEmpty(modified, file_path)
    IN  IF original_content # modified_content
        THEN <<Block(file_path,
                     unified_diff(SplitLines(original_content),
                                  SplitLines(modified_content), file_path, file_path))>>
        ELSE <<>>

\* One turn of the loop over all_keys.
DiffFile ==
    /\ pc = "diff"
    /\ all_keys # <<>>
    /\ patch_file' = patch_file \o diff_for(original_files, modified_files, Head(all_keys))
    /\ all_keys' = Tail(all_keys)
    /\ UNCHANGED <<pc, original_files, modified_files, apply_vars, out_written, out_file,
                   parse_vars>>
    /\ UNCHANGED <<source_vars, patch_texts, server_vars>>
    /\ UNCHANGED tool_vars

\* The loop ends and the patch container is closed.
DiffDone ==
    /\ pc = "diff"
    /\ all_keys = <<>>
    /\ pc' = "updater"
    /\ UNCHANGED <<original_files, patch_file, diff_vars, apply_vars, out_written,
                   out_file, parse_vars>>
    /\ UNCHANGED <<source_vars, patch_texts, server_vars>>
    /\ UNCHANGED tool_vars

\* ------------------------------------------------------------------ contexter_utils.py, patches

BlockPaths(blocks) == {blocks[i].path : i \in 1..Len(blocks)}

\* _parse_md_patch: one entry per DIFF FOR header, the last block of a path
\* replacing the earlier ones.
parse_patch_file(blocks) ==
    [p \in BlockPaths(blocks) |->
        LET last == CHOOSE i \in 1..Len(blocks) :
                        /\ blocks[i].path = p
                        /\ \A j \in (i + 1)..Len(blocks) : blocks[j].path # p
        IN  fromstring(blocks[last].diff)]

\* The order of a dict's items: each key where it was first inserted.
RECURSIVE FirstSeen(_, _)
FirstSeen(blocks, seen) ==
    IF blocks = <<>> THEN <<>>
    ELSE IF Head(blocks).path \in seen THEN FirstSeen(Tail(blocks), seen)
    ELSE <<Head(blocks).path>> \o FirstSeen(Tail(blocks), seen \cup {Head(blocks).path})

\* ------------------------------------------------------------------ updater.py

\* A parser returned None: the updater prints the error and returns.
UpdaterUnavailable ==
    /\ pc = "updater"
    /\ unavailable \cap {"original_md", "update_md"} # {}
    /\ pc' = "unavailable"
    /\ UNCHANGED <<original_files, patch_file, diff_vars, apply_vars, out_written,
                   out_file, parse_vars, source_vars, patch_texts, server_vars>>
    /\ UNCHANGED tool_vars

\* Mutant of UpdaterStart: the None check of the parse results left out, the
\* missing file read as an empty one.
UpdaterStart_unchecked ==
    /\ pc = "updater"
    /\ patches_to_apply' = parse_patch_file(patch_file)
    /\ remaining' = FirstSeen(patch_file, {})
    /\ updated_files' = original_files
    /\ pc' = "apply"
    /\ UNCHANGED <<original_files, patch_file, diff_vars, log, out_written, out_file,
                   parse_vars, source_vars, patch_texts, server_vars>>
    /\ UNCHANGED tool_vars

\* The updater has parsed both files and copies the original snapshot.
UpdaterStart ==
    /\ pc = "updater"
    /\ unavailable \cap {"original_md", "update_md"} = {}
    /\ patches_to_apply' = parse_patch_file(patch_file)
    /\ remaining' = FirstSeen(patch_file, {})
    /\ updated_files' = original_files
    /\ pc' = "apply"
    /\ UNCHANGED <<original_files, patch_file, diff_vars, log, out_written, out_file,
                   parse_vars>>
    /\ UNCHANGED <<source_vars, patch_texts, server_vars>>
    /\ UNCHANGED tool_vars

\* Mutants of apply_branch: the modification test before the deletion test;
\* an unknown path skipped instead of added; a binary entry handled like a
\* deletion.
apply_branch_modify_first(snapshot, path, hunks) ==
    IF path \notin DOMAIN snapshot THEN "add"
    ELSE IF ~snapshot[path].bin THEN "modify"
    ELSE IF hunks = <<>> THEN "delete"
    ELSE "skip"

apply_branch_no_add(snapshot, path, hunks) ==
    IF path \notin DOMAIN snapshot THEN "skip"
    ELSE IF hunks = <<>> THEN "delete"
    ELSE IF ~snapshot[path].bin THEN "modify"
    ELSE "skip"

apply_branch_binary_deleted(snapshot, path, hunks) ==
    IF path \notin DOMAIN snapshot THEN "add"
    ELSE IF hunks = <<>> \/ snapshot[path].bin THEN "delete"
    ELSE "modify"

\* The branch the apply loop takes for a path.
apply_branch(snapshot, path, hunks) ==
    IF path \notin DOMAIN snapshot THEN "add"
    ELSE IF hunks = <<>> THEN "delete"
    ELSE IF ~snapshot[path].bin THEN "modify"
    ELSE "skip"

\* The text the patch of a path is applied to.
apply_base(snapshot, path, branch) ==
    IF branch = "add" THEN <<"">> ELSE snapshot[path].text

\* Mutant of BaseAfterUpdate: updated_files is the dictionary original_files
\* itself, not a copy of it.
BaseAfterUpdate_aliased(base, updated) == updated

\* original_files after an assignment to updated_files[path] or a del:
\* updated_files is a copy, and the entries are strings or None, so the base
\* is what it was.
BaseAfterUpdate(base, updated) == base

\* One turn of the loop over patches_to_apply.  A patch that does not apply
\* raises out of main: nothing catches it.
ApplyPatch ==
    /\ pc = "apply"
    /\ remaining # <<>>
    /\ \E path \in {Head(remaining)} :
       \E patch_set \in {patches_to_apply[path]} :
       \E branch \in {apply_branch(updated_files, path, patch_set)} :
           /\ remaining' = Tail(remaining)
           /\ IF branch \in {"add", "modify"}
              THEN \E res \in {patch_apply(patch_set,
                                           apply_base(updated_files, path, branch))} :
                       IF res.ok
                       THEN /\ updated_files' = With(updated_files, path, Text(res.text))
                            /\ log' = Append(log, <<branch, path>>)
                            /\ pc' = pc
                       ELSE /\ updated_files' = updated_files
                            /\ log' = log \o <<(<<branch, path>>), (<<"raise", path>>)>>
                            /\ pc' = "aborted"
              ELSE IF branch = "delete"
              THEN /\ updated_files' = Without(updated_files, path)
                   /\ log' = Append(log, <<branch, path>>)
                   /\ pc' = pc
              ELSE /\ updated_files' = updated_files
                   /\ log' = Append(log, <<"skip", path>>)
                   /\ pc' = pc
    /\ original_files' = BaseAfterUpdate(original_files, updated_files')
    /\ UNCHANGED <<patch_file, diff_vars, patches_to_apply, out_written, out_file,
                   parse_vars>>
    /\ UNCHANGED <<source_vars, patch_texts, server_vars>>
    /\ UNCHANGED tool_vars

\* Mutant of WriteOutput: the output container is written in a finally
\* clause, also after a patch that raised.
WriteOutput_finally ==
    /\ pc \in {"apply", "aborted"}
    /\ pc = "apply" => remaining = <<>>
    /\ out_file' = Encode(updated_files)
    /\ out_written' = TRUE
    /\ pc' = IF pc = "aborted" THEN "aborted" ELSE "done"
    /\ UNCHANGED <<original_files, patch_file, diff_vars, apply_vars, parse_vars>>
    /\ UNCHANGED <<source_vars, patch_texts, server_vars>>
    /\ UNCHANGED tool_vars

\* The loop is over: the output container is opened and every entry written.
WriteOutput ==
    /\ pc = "apply"
    /\ remaining = <<>>
    /\ out_file' = Encode(updated_files)
    /\ out_written' = TRUE
    /\ pc' = "done"
    /\ UNCHANGED <<original_files, patch_file, diff_vars, apply_vars, parse_vars>>
    /\ UNCHANGED <<source_vars, patch_texts, server_vars>>
    /\ UNCHANGED tool_vars

\* ------------------------------------------------------------------ parse_md_constructor

\* The written container is opened for reading.
ParseOpen ==
    /\ pc = "done"
    /\ pc' = "parse"
    /\ ParserIdle
    /\ UNCHANGED <<original_files, patch_file, diff_vars, apply_vars, out_written,
                   out_file, parse_vars>>
    /\ UNCHANGED <<source_vars, patch_texts, server_vars>>
    /\ UNCHANGED tool_vars

\* Mutants of ParseLine: the test of current_file before the fence tests left
\* out; current_file not reset after a SKIPPED (BINARY) header.
ParseLine_no_current_check ==
    /\ pc = "parse"
    /\ line_no < Len(out_file)
    /\ line_no' = line_no + 1
    /\ \E line \in {out_file[line_no + 1]} :
       \E match \in {header_pattern(StripLine(line))} :
           IF match.matched
           THEN LET saved == IF current_file # ""
                             THEN With(files, current_file, Text(Join(content_lines)))
                             ELSE files
                IN  /\ content_lines' = <<>>
                    /\ in_code_block' = FALSE
                    /\ IF match.file_type = "SKIPPED (BINARY)"
                       THEN /\ files' = With(saved, match.path, Binary)
                            /\ current_file' = ""
                       ELSE /\ files' = saved
                            /\ current_file' = match.path
           ELSE IF TRUE
           THEN IF ~in_code_block /\ StartsWithFence(StripLine(line))
                THEN /\ in_code_block' = TRUE
                     /\ UNCHANGED <<files, current_file, content_lines>>
                ELSE IF in_code_block /\ StripLine(line) = Fence
                THEN /\ files' = With(files, current_file, Text(Join(content_lines)))
                     /\ current_file' = ""
                     /\ in_code_block' = FALSE
                     /\ UNCHANGED content_lines
                ELSE IF in_code_block
                THEN /\ content_lines' = Append(content_lines, line)
                     /\ UNCHANGED <<files, current_file, in_code_block>>
                ELSE UNCHANGED <<files, current_file, in_code_block, content_lines>>
           ELSE UNCHANGED <<files, current_file, in_code_block, content_lines>>
    /\ UNCHANGED <<pc, original_files, patch_file, diff_vars, apply_vars, out_written,
                   out_file>>
    /\ UNCHANGED <<source_vars, patch_texts, server_vars>>
    /\ UNCHANGED tool_vars

ParseLine_binary_stays_current ==
    /\ pc = "parse"
    /\ line_no < Len(out_file)
    /\ line_no' = line_no + 1
    /\ \E line \in {out_file[line_no + 1]} :
       \E match \in {header_pattern(StripLine(line))} :
           IF match.matched
           THEN LET saved == IF current_file # ""
                             THEN With(files, current_file, Text(Join(content_lines)))
                             ELSE files
                IN  /\ content_lines' = <<>>
                    /\ in_code_block' = FALSE
                    /\ IF match.file_type = "SKIPPED (BINARY)"
                       THEN /\ files' = With(saved, match.path, Binary)
                            /\ current_file' = match.path
                       ELSE /\ files' = saved
                            /\ current_file' = match.path
           ELSE IF current_file # ""
           THEN IF ~in_code_block /\ StartsWithFence(StripLine(line))
                THEN /\ in_code_block' = TRUE
                     /\ UNCHANGED <<files, current_file, content_lines>>
                ELSE IF in_code_block /\ StripLine(line) = Fence
                THEN /\ files' = With(files, current_file, Text(Join(content_lines)))
                     /\ current_file' = ""
                     /\ in_code_block' = FALSE
                     /\ UNCHANGED content_lines
                ELSE IF in_code_block
                THEN /\ content_lines' = Append(content_lines, line)
                     /\ UNCHANGED <<files, current_file, in_code_block>>
                ELSE UNCHANGED <<files, current_file, in_code_block, content_lines>>
           ELSE UNCHANGED <<files, current_file, in_code_block, content_lines>>
    /\ UNCHANGED <<pc, original_files, patch_file, diff_vars, apply_vars, out_written,
                   out_file>>
    /\ UNCHANGED <<source_vars, patch_texts, server_vars>>
    /\ UNCHANGED tool_vars

\* One turn of the loop over the lines of the file.
ParseLine ==
    /\ pc = "parse"
    /\ line_no < Len(out_file)
    /\ line_no' = line_no + 1
    /\ \E line \in {out_file[line_no + 1]} :
       \E match \in {header_pattern(StripLine(line))} :
           IF match.matched
           THEN LET saved == IF current_file # ""
                             THEN With(files, current_file, Text(Join(content_lines)))
                             ELSE files
                IN  /\ content_lines' = <<>>
                    /\ in_code_block' = FALSE
                    /\ IF match.file_type = "SKIPPED (BINARY)"
                       THEN /\ files' = With(saved, match.path, Binary)
                            /\ current_file' = ""
                       ELSE /\ files' = saved
                            /\ current_file' = match.path
           ELSE IF current_file # ""
           THEN IF ~in_code_block /\ StartsWithFence(StripLine(line))
                THEN /\ in_code_block' = TRUE
                     /\ UNCHANGED <<files, current_file, content_lines>>
                ELSE IF in_code_block /\ StripLine(line) = Fence
                THEN /\ files' = With(files, current_file, Text(Join(content_lines)))
                     /\ current_file' = ""
                     /\ in_code_block' = FALSE
                     /\ UNCHANGED content_lines
                ELSE IF in_code_block
                THEN /\ content_lines' = Append(content_lines, line)
                     /\ UNCHANGED <<files, current_file, in_code_block>>
                ELSE UNCHANGED <<files, current_file, in_code_block, content_lines>>
           ELSE UNCHANGED <<files, current_file, in_code_block, content_lines>>
    /\ UNCHANGED <<pc, original_files, patch_file, diff_vars, apply_vars, out_written,
                   out_file>>
    /\ UNCHANGED <<source_vars, patch_texts, server_vars>>
    /\ UNCHANGED tool_vars

\* The end of the file: an open block is saved, and the snapshot returned.
ParseEnd ==
    /\ pc = "parse"
    /\ line_no = Len(out_file)
    /\ files' = IF current_file # "" /\ in_code_block
                THEN With(files, current_file, Text(Join(content_lines)))
                ELSE files
    /\ pc' = "parsed"
    /\ UNCHANGED <<original_files, patch_file, diff_vars, apply_vars, out_written,
                   out_file, line_no, current_file, in_code_block, content_lines>>
    /\ UNCHANGED <<source_vars, patch_texts, server_vars>>
    /\ UNCHANGED tool_vars

\* ------------------------------------------------------------------ server.py

\* The three-backtick fence of the context file, written without the backtick
\* character.
Fence3 == "[fence3]"

\* The line "## " and the relative path between two backticks.
SourceHeader(rel_path) == "## [bq]" \o rel_path \o "[bq]"

\* line.startswith of the three backticks.
StartsWithFence3(line) == line = Fence3

\* The lines a source file of the server runs is made of.
ServerLines == {"x", "", Fence3}

\* _write_context_md: the title, then for every file its header, an empty
\* line and its stripped content between two fences.
RECURSIVE WriteFiles(_, _)
WriteFiles(dir, file_paths) ==
    IF file_paths = <<>> THEN <<>>
    ELSE <<SourceHeader(Head(file_paths)), "", Fence3>>
         \o StripText(dir[Head(file_paths)]) \o <<Fence3, "">>
         \o WriteFiles(dir, Tail(file_paths))

_write_context_md(dir) ==
    <<"# Project Context: src", "">> \o WriteFiles(dir, Sorted(DOMAIN dir))

\* pattern.finditer: a match starts at a header line followed by an empty
\* line and a line starting with the fence; its content runs from the next
\* line to the first later line break followed by the fence, so it has one
\* line at least; the search goes on after the match.
MatchEnd(doc, i) ==
    IF /\ i + 4 <= Len(doc)
       /\ doc[i + 1] = ""
       /\ StartsWithFence3(doc[i + 2])
       /\ \E j \in (i + 4)..Len(doc) : StartsWithFence3(doc[j])
    THEN CHOOSE j \in (i + 4)..Len(doc) :
             /\ StartsWithFence3(doc[j])
             /\ \A k \in (i + 4)..(j - 1) : ~StartsWithFence3(doc[k])
    ELSE 0

RECURSIVE ParseContextFrom(_, _, _)
ParseContextFrom(doc, i, found) ==
    IF i > Len(doc) THEN found
    ELSE IF (\E p \in Paths : doc[i] = SourceHeader(p)) /\ MatchEnd(doc, i) # 0
    THEN ParseContextFrom(doc, MatchEnd(doc, i) + 1,
             With(found, CHOOSE p \in Paths : doc[i] = SourceHeader(p),
                  Join(SubSeq(doc, i + 3, MatchEnd(doc, i) - 1))))
    ELSE ParseContextFrom(doc, i + 1, found)

_parse_context_md(content) == ParseContextFrom(content, 1, [p \in {} |-> <<>>])

\* _get_current_file_content_map: every file of the directory with the
\* content read from it.
_get_current_file_content_map(dir) == dir

Built(dir) ==
    [success |-> TRUE, message |-> "Successfully built context",
     files_processed |-> Cardinality(DOMAIN dir)]

NoChanges ==
    [success |-> TRUE, message |-> "No changes detected", files_processed |-> 0]

server_frame ==
    <<original_files, patch_file, diff_vars, apply_vars, out_written, out_file,
      parse_vars, source_vars, patch_texts>>

\* build_context_md: the context file is written from the directory.
BuildContextMd ==
    /\ pc = "server"
    /\ context_md' = _write_context_md(source_dir)
    /\ writes' = writes + 1
    /\ result' = Built(source_dir)
    /\ pc' = "built"
    /\ UNCHANGED <<source_dir, server_frame>>
    /\ UNCHANGED tool_vars

\* smart_update_md on the directory and the context file just built: the
\* files parsed from the context file are compared with those of the
\* directory, and the context file is rebuilt when they differ.
SmartUpdateMd ==
    /\ pc = "built"
    /\ \E old_files \in {_parse_context_md(context_md)} :
       \E current_files \in {_get_current_file_content_map(source_dir)} :
           IF old_files = current_files
           THEN /\ result' = NoChanges
                /\ UNCHANGED <<context_md, writes>>
           ELSE /\ context_md' = _write_context_md(source_dir)
                /\ writes' = writes + 1
                /\ result' = Built(source_dir)
    /\ pc' = "smart_done"
    /\ UNCHANGED <<source_dir, server_frame>>
    /\ UNCHANGED tool_vars

\* ------------------------------------------------------------------ patch container

\* difflib._format_range_unified, from the start and the length of a range.
RangeText(start, length) ==
    IF length = 1 THEN ToString(start)
    ELSE ToString(start) \o "," \o ToString(length)

\* One line of a unified diff as the string unified_diff yields.
LineText(d) ==
    CASE d.t = "@@" ->
             "@@ -" \o RangeText(d.r[1], d.r[2]) \o " +" \o RangeText(d.r[3], d.r[4])
             \o " @@"
      [] d.t \in {"---", "+++"} -> d.t \o " " \o d.s
      [] OTHER -> d.t \o d.s

DiffHeader(path) == "--- DIFF FOR: " \o path \o " ---"

\* "\n".join(diff), as the lines it adds to the container: the empty diff
\* is the empty string, which makes one empty line.
BodyText(diff) ==
    IF diff = <<>> THEN <<"">> ELSE [k \in 1..Len(diff) |-> LineText(diff[k])]

\* The lines update_context writes for one block, and for all of them.
WriteBlock(block) ==
    <<DiffHeader(block.path), "", Fence3 \o "diff">> \o BodyText(block.diff)
    \o <<Fence3, "">>

RECURSIVE WritePatchFile(_)
WritePatchFile(blocks) ==
    IF blocks = <<>> THEN <<>>
    ELSE WriteBlock(Head(blocks)) \o WritePatchFile(Tail(blocks))

\* line.strip() of a line of the patch container.
PatchStrip(line) ==
    IF line = " " \o Fence3 THEN Fence3
    ELSE IF line = " " THEN ""
    ELSE StripLine(line)

\* diff_header_pattern.match(line).group(1).strip(), "" when there is no match.
diff_header_pattern(line) ==
    IF \E p \in Paths : line = DiffHeader(p)
    THEN CHOOSE p \in Paths : line = DiffHeader(p)
    ELSE ""

\* "\n".join(diff_lines), every line of diff_lines still ending in its line
\* break: the lines of the joined text, an empty one after each line.
RECURSIVE JoinWithBreaks(_)
JoinWithBreaks(diff_lines) ==
    IF diff_lines = <<>> THEN <<>>
    ELSE <<Head(diff_lines), "">> \o JoinWithBreaks(Tail(diff_lines))

JoinedDiff(diff_lines) == Join(JoinWithBreaks(diff_lines))

SavePatch(patches, open_file, diff_lines) ==
    IF open_file # "" THEN With(patches, open_file, JoinedDiff(diff_lines))
    ELSE patches

RECURSIVE ParsePatchFrom(_, _, _, _, _)

\* The body of the loop of _parse_md_patch for line i, its stripped text and
\* the path of the header it matches: a header saves the open entry, starts
\* the next one and skips one line; the closing fence saves the entry; any
\* other line of an open entry is collected.
ParsePatchStep(lines, i, patches, open_file, diff_lines, line, path) ==
    IF path # ""
    THEN ParsePatchFrom(lines, i + 2, SavePatch(patches, open_file, diff_lines),
                        path, <<>>)
    ELSE IF line = Fence3 /\ open_file # ""
    THEN ParsePatchFrom(lines, i + 1, SavePatch(patches, open_file, diff_lines),
                        "", diff_lines)
    ELSE IF open_file # ""
    THEN ParsePatchFrom(lines, i + 1, patches, open_file, Append(diff_lines, lines[i]))
    ELSE ParsePatchFrom(lines, i + 1, patches, open_file, diff_lines)

ParsePatchFrom(lines, i, patches, open_file, diff_lines) ==
    IF i > Len(lines) THEN SavePatch(patches, open_file, diff_lines)
    ELSE ParsePatchStep(lines, i, patches, open_file, diff_lines,
                        PatchStrip(lines[i]), diff_header_pattern(PatchStrip(lines[i])))

\* _parse_md_patch: path -> the lines of the text handed to patch.fromstring.
_parse_md_patch(lines) == ParsePatchFrom(lines, 1, NoTexts, "", <<>>)

\* The patch container update_context wrote is read by _parse_md_patch.
ParsePatchFile ==
    /\ pc = "updater"
    /\ patch_texts' = _parse_md_patch(WritePatchFile(patch_file))
    /\ pc' = "patch_parsed"
    /\ UNCHANGED <<original_files, patch_file, diff_vars, apply_vars, out_written,
                   out_file, parse_vars, source_vars, server_vars>>
    /\ UNCHANGED tool_vars

\* ------------------------------------------------------------------ sanitize_context.py

\* A header met inside a file block whose last line is no fence: the block
\* is closed with a fence and a blank line.
CloseBlock(sanitized_lines, in_file_block) ==
    IF /\ in_file_block
       /\ sanitized_lines # <<>>
       /\ ~StartsWithFence(StripLine(Last(sanitized_lines)))
    THEN sanitized_lines \o <<Fence, "">>
    ELSE sanitized_lines

\* A FILE header whose next line is no fence: the opening fence is added.
\* A header that is the last line gets none here.
OpenBlock(lines, i) ==
    IF /\ header_pattern(StripLine(lines[i])).file_type = "FILE"
       /\ i + 1 <= Len(lines)
       /\ ~StartsWithFence(StripLine(lines[i + 1]))
    THEN <<Fence \o get_language_from_path(header_pattern(StripLine(lines[i])).path)>>
    ELSE <<>>

\* The loop over the lines, from line i on: the sanitized lines and the
\* in_file_block flag at its end.  The header_pattern of the sanitizer
\* matches the headers of the parser and the DIRECTORY STRUCTURE header.
RECURSIVE SanitizeFrom(_, _, _, _)
SanitizeFrom(lines, i, sanitized_lines, in_file_block) ==
    IF i > Len(lines)
    THEN [sanitized_lines |-> sanitized_lines, in_file_block |-> in_file_block]
    ELSE IF \/ header_pattern(StripLine(lines[i])).matched
            \/ StripLine(lines[i]) = "--- DIRECTORY STRUCTURE: src ---"
    THEN SanitizeFrom(lines, i + 1,
                      CloseBlock(sanitized_lines, in_file_block) \o <<lines[i]>>
                          \o OpenBlock(lines, i),
                      header_pattern(StripLine(lines[i])).file_type = "FILE")
    ELSE SanitizeFrom(lines, i + 1, Append(sanitized_lines, lines[i]), in_file_block)

\* Mutant of SanitizeEnd: the closing fence after the loop left out.
SanitizeEnd_no_closing(loop, nl) == [lines |-> loop.sanitized_lines, nl |-> nl]

\* After the loop: a file block still open whose last line is no fence is
\* closed. The fence is appended to the last line itself when that line
\* has no newline.
SanitizeEnd(loop, nl) ==
    IF /\ loop.in_file_block
       /\ loop.sanitized_lines # <<>>
       /\ ~StartsWithFence(StripLine(Last(loop.sanitized_lines)))
    THEN [lines |-> IF nl THEN Append(loop.sanitized_lines, Fence)
                    ELSE Append(Front(loop.sanitized_lines),
                                Last(loop.sanitized_lines) \o Fence),
          nl |-> TRUE]
    ELSE [lines |-> loop.sanitized_lines, nl |-> nl]

\* The file sanitize_file writes for the file it reads.
sanitize_file(file) == SanitizeEnd(SanitizeFrom(file.lines, 1, <<>>, FALSE), file.nl)

\* sanitize on input_path, written to output_path.
SanitizeFile ==
    /\ pc = "sanitize"
    /\ output_path' = sanitize_file(input_path)
    /\ pc' = "sanitized"
    /\ UNCHANGED <<input_path, second_output, project_dir, cache_dir, changes,
                   patch_output_file, files_to_create, created, other_vars>>

\* sanitize on the file the first run wrote.
SanitizeAgain ==
    /\ pc = "sanitized"
    /\ second_output' = sanitize_file(output_path)
    /\ pc' = "sanitized_twice"
    /\ UNCHANGED <<input_path, output_path, project_dir, cache_dir, changes,
                   patch_output_file, files_to_create, created, other_vars>>

\* ------------------------------------------------------------------ smart_update.py

\* rsync -a -n -i --delete from the project to the cache: one itemized line
\* per file the cache lacks, per file that differs and per file the project
\* lacks.
rsync_dry_run(project, cache) ==
    {[item |-> ">f+", path |-> p] : p \in DOMAIN project \ DOMAIN cache}
    \cup {[item |-> ">f.", path |-> p] :
             p \in {q \in DOMAIN project \cap DOMAIN cache : project[q] # cache[q]}}
    \cup {[item |-> "*deleting", path |-> p] : p \in DOMAIN cache \ DOMAIN project}

\* The paths of the itemized lines by kind.  The paths are joined to the
\* project directory here and made relative to it again in main.
parse_rsync_output(output) ==
    [added |-> {l.path : l \in {o \in output : o.item = ">f+"}},
     deleted |-> {l.path : l \in {o \in output : o.item = "*deleting"}},
     modified |-> {l.path : l \in {o \in output : o.item = ">f."}}]

\* The block main writes for one reported path.  An entry that is no text
\* cannot be read: the old version then counts as empty, a new version is
\* skipped, and so is a deleted file whose cached version cannot be read.
\* An added or modified path whose diff is empty gets no block.
smart_block(project, cache, rel_path, is_deleted) ==
    IF is_deleted
    THEN IF rel_path \in DOMAIN cache /\ cache[rel_path].bin
         THEN <<>>
         ELSE <<Block(rel_path,
                      unified_diff(SplitLines(GetOrEmpty(cache, rel_path)), <<>>,
                                   rel_path, rel_path))>>
    ELSE IF rel_path \in DOMAIN project /\ project[rel_path].bin
         THEN <<>>
         ELSE IF unified_diff(SplitLines(GetOrEmpty(cache, rel_path)),
                              SplitLines(GetOrEmpty(project, rel_path)),
                              rel_path, rel_path) = <<>>
         THEN <<>>
         ELSE <<Block(rel_path,
                      unified_diff(SplitLines(GetOrEmpty(cache, rel_path)),
                                   SplitLines(GetOrEmpty(project, rel_path)),
                                   rel_path, rel_path))>>

\* One of the two loops of main over sorted paths.
RECURSIVE SmartBlocksFrom(_, _, _, _)
SmartBlocksFrom(project, cache, keys, is_deleted) ==
    IF keys = <<>> THEN <<>>
    ELSE smart_block(project, cache, Head(keys), is_deleted)
         \o SmartBlocksFrom(project, cache, Tail(keys), is_deleted)

\* smartupdate on a project that has a cache: the dry run, the patch file
\* when anything was reported, then the cache brought to the project's state.
SmartUpdate ==
    /\ pc = "smartupdate"
    /\ \E found \in {parse_rsync_output(rsync_dry_run(project_dir, cache_dir))} :
           /\ changes' = found
           /\ IF found.added \cup found.deleted \cup found.modified = {}
              THEN UNCHANGED <<patch_output_file, cache_dir>>
              ELSE /\ patch_output_file' =
                          SmartBlocksFrom(project_dir, cache_dir,
                                          Sorted(found.added \cup found.modified), FALSE)
                          \o SmartBlocksFrom(project_dir, cache_dir,
                                             Sorted(found.deleted), TRUE)
                   /\ cache_dir' = project_dir
    /\ pc' = "smart_ran"
    /\ UNCHANGED <<project_dir, input_path, output_path, second_output, files_to_create,
                   created, other_vars>>

\* Between two runs a file of the project is written or removed.
EditProject ==
    /\ pc = "smart_ran"
    /\ \E edited \in Snapshots(DiffLines, MaxLines) :
           /\ \E p \in Paths :
                  /\ Without(edited, p) = Without(project_dir, p)
                  /\ edited # project_dir
           /\ project_dir' = edited
    /\ pc' = "smartupdate"
    /\ UNCHANGED <<cache_dir, changes, patch_output_file, input_path, output_path,
                   second_output, files_to_create, created, other_vars>>

\* ------------------------------------------------------------------ reconstruction

\* A path is the sequence of its parts between separators: "/a" is
\* <<"", "a">>, "../a" is <<"..", "a">>.  The output directory is /out.
OutDir == <<"out">>

\* The loop of posixpath.normpath over the parts: empty parts are dropped,
\* a ".." takes the part before it away, and stays when the path is
\* relative and nothing, or another "..", is before it.  With a directory
\* as new_comps and initial_slashes set it is also how the system resolves
\* the parts from that directory.
RECURSIVE NormComps(_, _, _)
NormComps(comps, new_comps, initial_slashes) ==
    IF comps = <<>> THEN new_comps
    ELSE IF Head(comps) = "" THEN NormComps(Tail(comps), new_comps, initial_slashes)
    ELSE IF \/ Head(comps) # ".."
            \/ (initial_slashes = 0 /\ new_comps = <<>>)
            \/ (new_comps # <<>> /\ Last(new_comps) = "..")
    THEN NormComps(Tail(comps), Append(new_comps, Head(comps)), initial_slashes)
    ELSE IF new_comps # <<>>
    THEN NormComps(Tail(comps), Front(new_comps), initial_slashes)
    ELSE NormComps(Tail(comps), new_comps, initial_slashes)

\* posixpath.normpath: the number of leading separators kept and the parts.
normpath(path) ==
    [initial_slashes |->
         IF Len(path) >= 2 /\ path[1] = ""
         THEN IF /\ Len(path) >= 3
                 /\ path[2] = ""
                 /\ ~(Len(path) >= 4 /\ path[3] = "")
              THEN 2 ELSE 1
         ELSE 0,
     comps |-> NormComps(path, <<>>,
                         IF Len(path) >= 2 /\ path[1] = "" THEN 1 ELSE 0)]

\* reconstructor_html: one leading separator is cut off, the rest is
\* normalised and joined to the output directory; the result is the file
\* the system opens for the joined path.  A normalised path that is still
\* absolute replaces the output directory in the join.  (No part drawn
\* here starts with a backslash.)
html_full_path(path) ==
    LET safe_path == normpath(IF Len(path) >= 2 /\ path[1] = ""
                              THEN Tail(path) ELSE path)
    IN  IF safe_path.initial_slashes > 0
        THEN safe_path.comps
        ELSE NormComps(safe_path.comps, OutDir, 1)

\* reconstruct_from_md: out_dir / rel_path is rel_path when that is
\* absolute; the file the system opens for it.
md_full_path(rel_path) ==
    NormComps(rel_path,
              IF Len(rel_path) >= 2 /\ rel_path[1] = "" THEN <<>> ELSE OutDir, 1)

\* reconstructorhtml on the parsed container: every entry is written at
\* its full path; opening the output directory or a directory above it as
\* a file fails, which is printed and passed over.
ReconstructHtml ==
    /\ pc = "reconstruct"
    /\ created' = {html_full_path(path) : path \in files_to_create}
                      \ {SubSeq(OutDir, 1, k) : k \in 0..Len(OutDir)}
    /\ pc' = "reconstructed"
    /\ UNCHANGED <<files_to_create, input_path, output_path, second_output,
                   project_dir, cache_dir, changes, patch_output_file, other_vars>>

\* reconstruct_from_md of the server on the parsed container.
ReconstructFromMd ==
    /\ pc = "reconstruct"
    /\ created' = {md_full_path(rel_path) : rel_path \in files_to_create}
                      \ {SubSeq(OutDir, 1, k) : k \in 0..Len(OutDir)}
    /\ pc' = "reconstructed"
    /\ UNCHANGED <<files_to_create, input_path, output_path, second_output,
                   project_dir, cache_dir, changes, patch_output_file, other_vars>>

\* ------------------------------------------------------------------ specifications

Untouched ==
    /\ out_written = FALSE
    /\ out_file = <<>>
    /\ log = <<>>
    /\ ParserIdle
    /\ patch_texts = NoTexts
    /\ ServerIdle
    /\ ToolsIdle

\* The diff engine, the updater, the parsers and the server have not run.
OthersIdle ==
    /\ original_files = EmptySnapshot
    /\ modified_files = EmptySnapshot
    /\ patch_file = <<>>
    /\ all_keys = <<>>
    /\ patches_to_apply = NoPatches
    /\ remaining = <<>>
    /\ updated_files = EmptySnapshot
    /\ out_written = FALSE
    /\ out_file = <<>>
    /\ log = <<>>
    /\ ParserIdle
    /\ unavailable = {}
    /\ patch_opened = FALSE
    /\ patch_texts = NoTexts
    /\ ServerIdle

\* updatecontext on two containers, then updater on the original container
\* and the patch container just written.
Init ==
    /\ pc = "diff"
    /\ original_files \in Snapshots(DiffLines, MaxLines)
    /\ modified_files \in Snapshots(DiffLines, MaxLines)
    /\ all_keys = Sorted(DOMAIN original_files \cup DOMAIN modified_files)
    /\ patch_file = <<>>
    /\ patches_to_apply = NoPatches
    /\ remaining = <<>>
    /\ updated_files = EmptySnapshot
    /\ unavailable = {}
    /\ patch_opened = TRUE
    /\ Untouched

Next ==
    \/ DiffFile
    \/ DiffDone
    \/ UpdaterStart
    \/ ApplyPatch
    \/ WriteOutput

Spec == Init /\ [][Next]_vars

\* The lines lists the diff engine is given, and the diffs it writes for them.
LineLists == {SplitLines(t) : t \in TextsUpTo(DiffLines, MaxPatchLines)}

Diffs(path) == {unified_diff(a, b, path, path) : a \in LineLists, b \in LineLists}

Blocks == UNION {{Block(p, d) : d \in Diffs(p)} : p \in Paths}

\* The patch containers of at most one block per path, in either order.
PatchFilesOf(blocks) ==
    {<<>>}
    \cup {<<b>> : b \in blocks}
    \cup {f \in {<<b, c>> : b \in blocks, c \in blocks} : f[1].path # f[2].path}

PatchFiles == PatchFilesOf(Blocks)

\* updater on a container and any patch container the diff engine can write,
\* whatever snapshots it was written from.
InitApply ==
    /\ pc = "updater"
    /\ original_files \in Snapshots(DiffLines, MaxLines)
    /\ patch_file \in PatchFiles
    /\ modified_files = EmptySnapshot
    /\ all_keys = <<>>
    /\ patches_to_apply = NoPatches
    /\ remaining = <<>>
    /\ updated_files = EmptySnapshot
    /\ unavailable = {}
    /\ patch_opened = FALSE
    /\ Untouched

NextApply ==
    \/ UpdaterStart
    \/ ApplyPatch
    \/ WriteOutput

SpecApply == InitApply /\ [][NextApply]_vars

\* updater with an empty patch container, and its output container read back
\* by parse_md_constructor.
InitCodec ==
    /\ pc = "apply"
    /\ original_files \in Snapshots(CodecLines, MaxLines)
    /\ updated_files = original_files
    /\ patch_file = <<>>
    /\ modified_files = EmptySnapshot
    /\ all_keys = <<>>
    /\ patches_to_apply = NoPatches
    /\ remaining = <<>>
    /\ unavailable = {}
    /\ patch_opened = FALSE
    /\ Untouched

NextCodec ==
    \/ WriteOutput
    \/ ParseOpen
    \/ ParseLine
    \/ ParseEnd

SpecCodec == InitCodec /\ [][NextCodec]_vars

\* The lines of the containers handed to parse_md_constructor as they are:
\* headers of both types, opening and closing fences, and a plain line.
DocLines ==
    {FileHeader("a.py"), FileHeader("b.txt"), BinaryHeader("b.txt"),
     Fence \o "python", Fence, "x"}

Docs == {<<>>} \cup UNION {SeqsOfLen(DocLines, k) : k \in 1..MaxDocLines}

\* parse_md_constructor on any container, well formed or not.
InitParse ==
    /\ pc = "done"
    /\ out_file \in Docs
    /\ out_written = TRUE
    /\ original_files = EmptySnapshot
    /\ modified_files = EmptySnapshot
    /\ patch_file = <<>>
    /\ all_keys = <<>>
    /\ patches_to_apply = NoPatches
    /\ remaining = <<>>
    /\ updated_files = EmptySnapshot
    /\ log = <<>>
    /\ ParserIdle
    /\ unavailable = {}
    /\ patch_opened = FALSE
    /\ patch_texts = NoTexts
    /\ ServerIdle
    /\ ToolsIdle

NextParse ==
    \/ ParseOpen
    \/ ParseLine
    \/ ParseEnd

SpecParse == InitParse /\ [][NextParse]_vars

\* The lines of the files diffed in the patch container runs: a plain line
\* and a line that is the three-backtick fence.
PatchCodecLines == {"x", Fence3}

\* update_context on two containers, and the patch container it writes read
\* back by _parse_md_patch.
InitPatch ==
    /\ pc = "diff"
    /\ original_files \in Snapshots(PatchCodecLines, MaxLines)
    /\ modified_files \in Snapshots(PatchCodecLines, MaxLines)
    /\ all_keys = Sorted(DOMAIN original_files \cup DOMAIN modified_files)
    /\ patch_file = <<>>
    /\ patches_to_apply = NoPatches
    /\ remaining = <<>>
    /\ updated_files = EmptySnapshot
    /\ unavailable = {}
    /\ patch_opened = TRUE
    /\ Untouched

NextPatch ==
    \/ DiffFile
    \/ DiffDone
    \/ ParsePatchFile

SpecPatch == InitPatch /\ [][NextPatch]_vars

\* The source directories of the server runs.
SourceDirs == UNION {[D -> TextsUpTo(ServerLines, MaxLines)] : D \in SUBSET Paths}

\* build_context_md on a directory, then smart_update_md with the directory
\* as it was.
InitSmart ==
    /\ pc = "server"
    /\ source_dir \in SourceDirs
    /\ context_md = <<>>
    /\ writes = 0
    /\ result = NoResult
    /\ original_files = EmptySnapshot
    /\ modified_files = EmptySnapshot
    /\ patch_file = <<>>
    /\ all_keys = <<>>
    /\ patches_to_apply = NoPatches
    /\ remaining = <<>>
    /\ updated_files = EmptySnapshot
    /\ out_written = FALSE
    /\ out_file = <<>>
    /\ log = <<>>
    /\ ParserIdle
    /\ unavailable = {}
    /\ patch_opened = FALSE
    /\ patch_texts = NoTexts
    /\ ToolsIdle

NextSmart ==
    \/ BuildContextMd
    \/ SmartUpdateMd

SpecSmart == InitSmart /\ [][NextSmart]_vars

\* The files the sanitizer reads: any lines, the last one with or without
\* its newline, and the containers the updater writes.
SanitizeInputs ==
    {NoFile}
    \cup UNION {{[lines |-> l, nl |-> n] : n \in {b \in BOOLEAN : b \/ Last(l) # ""}} :
                   l \in TextsUpTo(DocLines \cup {""}, MaxDocLines)}
    \cup {[lines |-> Encode(s), nl |-> TRUE] : s \in Snapshots({"x"}, MaxLines)}

\* sanitize on a container, then sanitize on its own output.
InitSanitize ==
    /\ pc = "sanitize"
    /\ input_path \in SanitizeInputs
    /\ output_path = NoFile
    /\ second_output = NoFile
    /\ project_dir = [p \in {} |-> <<>>]
    /\ cache_dir = [p \in {} |-> <<>>]
    /\ changes = [added |-> {}, deleted |-> {}, modified |-> {}]
    /\ patch_output_file = <<>>
    /\ files_to_create = {}
    /\ created = {}
    /\ OthersIdle

NextSanitize ==
    \/ SanitizeFile
    \/ SanitizeAgain

SpecSanitize == InitSanitize /\ [][NextSanitize]_vars

\* smartupdate on any project and any cache of an earlier state of it, then
\* edits and further runs.
InitSmartUpdate ==
    /\ pc = "smartupdate"
    /\ project_dir \in Snapshots(DiffLines, MaxLines)
    /\ cache_dir \in Snapshots(DiffLines, MaxLines)
    /\ changes = [added |-> {}, deleted |-> {}, modified |-> {}]
    /\ patch_output_file = <<>>
    /\ input_path = NoFile
    /\ output_path = NoFile
    /\ second_output = NoFile
    /\ files_to_create = {}
    /\ created = {}
    /\ OthersIdle

NextSmartUpdate ==
    \/ SmartUpdate
    \/ EditProject

SpecSmartUpdate == InitSmartUpdate /\ [][NextSmartUpdate]_vars

\* A reconstruction tool on a container of one entry, its path any
\* non-empty string of separators, ".." and a name.
InitReconstruct ==
    /\ pc = "reconstruct"
    /\ \E path \in TextsUpTo({"", "..", "a"}, MaxPathParts) \ {<<"">>} :
           files_to_create = {path}
    /\ created = {}
    /\ input_path = NoFile
    /\ output_path = NoFile
    /\ second_output = NoFile
    /\ project_dir = [p \in {} |-> <<>>]
    /\ cache_dir = [p \in {} |-> <<>>]
    /\ changes = [added |-> {}, deleted |-> {}, modified |-> {}]
    /\ patch_output_file = <<>>
    /\ OthersIdle

NextReconstruct ==
    \/ ReconstructHtml
    \/ ReconstructFromMd

SpecReconstruct == InitReconstruct /\ [][NextReconstruct]_vars

\* The snapshots of the runs whose input files may be missing.
SourceSnapshots == Snapshots({"x"}, 1)

\* What the patch container holds before update_context runs.
StalePatchFiles == {<<>>, <<Block("a.py", <<>>)>>}

\* The inputs each program opens.
InputsOf(program) ==
    IF program = "update_context" THEN {"original_md", "modified_md"}
    ELSE {"original_md", "update_md"}

\* update_context or updater started on input files any of which may be
\* missing; a parser returns None for a missing file, which is modelled by the
\* name of the file in unavailable and the empty value in the variable.
InitSource ==
    /\ pc \in {"update_context", "updater"}
    /\ unavailable \in SUBSET InputsOf(pc)
    /\ original_files \in (IF "original_md" \in unavailable THEN {EmptySnapshot}
                           ELSE SourceSnapshots)
    /\ modified_files \in (IF pc = "update_context" /\ "modified_md" \notin unavailable
                           THEN SourceSnapshots ELSE {EmptySnapshot})
    /\ patch_file \in (IF pc = "update_context" THEN StalePatchFiles
                       ELSE IF "update_md" \in unavailable THEN {<<>>}
                       ELSE PatchFiles)
    /\ all_keys = <<>>
    /\ patches_to_apply = NoPatches
    /\ remaining = <<>>
    /\ updated_files = EmptySnapshot
    /\ patch_opened = FALSE
    /\ Untouched

NextSource ==
    \/ UpdateContextUnavailable
    \/ UpdateContextStart
    \/ DiffFile
    \/ DiffDone
    \/ UpdaterUnavailable
    \/ UpdaterStart
    \/ ApplyPatch
    \/ WriteOutput

SpecSource == InitSource /\ [][NextSource]_vars

\* ------------------------------------------------------------------ claims

Processed(path) ==
    /\ pc \in {"apply", "done"}
    /\ path \in DOMAIN patches_to_apply
    /\ \A i \in 1..Len(remaining) : remaining[i] # path

Logged(what, path) == \E i \in 1..Len(log) : log[i] = <<what, path>>

\* The blocks of the patch container for a path.
BlocksFor(path) == {i \in 1..Len(patch_file) : patch_file[i].path = path}

HunksFor(path) == fromstring(patch_file[CHOOSE i \in BlocksFor(path) : TRUE].diff)

\* A text without trailing blank lines; the empty text has none.
NoTrailingBlank(text) == text = <<"">> \/ ~IsBlank(Last(text))

NoTrailingBlankLines(snapshot) ==
    \A p \in DOMAIN snapshot : snapshot[p].bin \/ NoTrailingBlank(snapshot[p].text)

\* C1: round trip.  For every snapshot whose text entries have no trailing
\* blank lines, parse_md_constructor on the container the encoder writes for
\* it returns the snapshot: same paths, same text per path, binary markers
\* kept.
C1_RoundTrip ==
    (pc = "parsed" /\ NoTrailingBlankLines(original_files)) => files = original_files

\* C2: diff/apply inverse.  Applying to a the patch set the diff engine
\* writes for a and b gives b.
C2_DiffApplyInverse == pc = "done" => updated_files = modified_files

\* The paths whose entry is not the same in the two snapshots.
ChangedPaths(a, b) ==
    {p \in DOMAIN a \cup DOMAIN b :
        \/ p \notin DOMAIN a
        \/ p \notin DOMAIN b
        \/ a[p] # b[p]}

\* C3: the patch container has exactly one DIFF FOR block for every changed
\* path, and none for any other path.
C3_OneEntryPerChangedPath ==
    pc = "updater" =>
        \A p \in Paths :
            Cardinality(BlocksFor(p))
                = (IF p \in ChangedPaths(original_files, modified_files) THEN 1 ELSE 0)

\* C4: a path of the base that the target lacks gets a block with no hunk,
\* whatever its entry in the base.
C4_DeleteMarker ==
    pc = "updater" =>
        \A p \in DOMAIN original_files \ DOMAIN modified_files :
            /\ Cardinality(BlocksFor(p)) = 1
            /\ HunksFor(p) = <<>>

\* C5: a path the base lacks, with a text in the target, gets a block of one
\* hunk, its old range empty and its added lines the lines of the text; and
\* an unchanged path gets no block.
C5_AddHunk ==
    pc = "updater" =>
        /\ \A p \in DOMAIN modified_files \ DOMAIN original_files :
              ~modified_files[p].bin =>
                  /\ Cardinality(BlocksFor(p)) = 1
                  /\ Len(HunksFor(p)) = 1
                  /\ HunksFor(p)[1].old_len = 0
                  /\ AddedLines(HunksFor(p)[1]) = SplitLines(modified_files[p].text)
        /\ \A p \in Paths \ ChangedPaths(original_files, modified_files) :
              BlocksFor(p) = {}

IsBinaryIn(snapshot, p) == p \in DOMAIN snapshot /\ snapshot[p].bin

\* C6: a path binary in both snapshots has no block; a path with a binary
\* marker on one side only (binary added, binary deleted, binary replaced by
\* text, text replaced by binary) has one.
C6_BinaryEntries ==
    pc = "updater" =>
        \A p \in Paths :
            /\ IsBinaryIn(original_files, p) /\ IsBinaryIn(modified_files, p)
                  => BlocksFor(p) = {}
            /\ IsBinaryIn(original_files, p) # IsBinaryIn(modified_files, p)
                  => BlocksFor(p) # {}

\* The apply loop has left the path behind, whether or not the run went on.
Visited(path) ==
    /\ pc \in {"apply", "done", "aborted"}
    /\ path \in DOMAIN patches_to_apply
    /\ \A i \in 1..Len(remaining) : remaining[i] # path

\* C7: apply delete.  A path of the base whose patch has no hunk is absent
\* from the result, and the paths of the base that have no patch keep their
\* entries.
C7_ApplyDelete ==
    /\ \A p \in Paths :
          (Processed(p) /\ p \in DOMAIN original_files /\ patches_to_apply[p] = <<>>)
              => p \notin DOMAIN updated_files
    /\ \A q \in DOMAIN original_files :
          (pc \in {"apply", "done"} /\ q \notin DOMAIN patches_to_apply)
              => (q \in DOMAIN updated_files /\ updated_files[q] = original_files[q])

C7_Witness ==
    /\ pc = "done"
    /\ \E p \in DOMAIN original_files, q \in DOMAIN original_files :
          /\ p # q
          /\ p \in DOMAIN patches_to_apply
          /\ patches_to_apply[p] = <<>>
          /\ ~original_files[p].bin
          /\ p \notin DOMAIN updated_files
          /\ q \notin DOMAIN patches_to_apply
          /\ updated_files[q] = original_files[q]

\* C8: apply add.  A path with a patch that the base lacks is in the result
\* as a text entry, its text the patch applied to the empty text: the added
\* lines of the hunk, when the patch is one hunk with an empty old range.
C8_ApplyAdd ==
    \A p \in Paths :
        (Processed(p) /\ p \notin DOMAIN original_files) =>
            /\ p \in DOMAIN updated_files
            /\ ~updated_files[p].bin
            /\ updated_files[p].text = patch_apply(patches_to_apply[p], <<"">>).text
            /\ (Len(patches_to_apply[p]) = 1 /\ patches_to_apply[p][1].old_len = 0)
                  => updated_files[p].text = Join(AddedLines(patches_to_apply[p][1]))

C8_Witness ==
    /\ pc = "done"
    /\ \E p \in DOMAIN patches_to_apply :
          /\ p \notin DOMAIN original_files
          /\ Len(patches_to_apply[p]) = 1
          /\ patches_to_apply[p][1].old_len = 0
          /\ updated_files[p] = Text(<<"x">>)

\* What the apply loop makes of the patch of a path, from the base.
AppliedTo(q) ==
    IF q \notin DOMAIN original_files
    THEN /\ q \in DOMAIN updated_files
         /\ updated_files[q] = Text(patch_apply(patches_to_apply[q], <<"">>).text)
    ELSE IF patches_to_apply[q] = <<>>
    THEN q \notin DOMAIN updated_files
    ELSE IF ~original_files[q].bin
    THEN /\ q \in DOMAIN updated_files
         /\ updated_files[q]
               = Text(patch_apply(patches_to_apply[q], original_files[q].text).text)
    ELSE /\ q \in DOMAIN updated_files
         /\ updated_files[q] = Binary

RejectedBinary(p) ==
    /\ Visited(p)
    /\ p \in DOMAIN original_files
    /\ original_files[p].bin
    /\ patches_to_apply[p] # <<>>

\* C9: a patch with hunks for a binary entry is rejected for that path alone.
\* The entry stays the binary marker, the path is reported as skipped, nothing
\* is raised for it, and the patches of the other paths are applied.
C9_BinaryRejected ==
    \A p \in Paths :
        RejectedBinary(p) =>
            /\ p \in DOMAIN updated_files
            /\ updated_files[p] = Binary
            /\ Logged("skip", p)
            /\ ~Logged("raise", p)
            /\ pc = "done" => \A q \in DOMAIN patches_to_apply \ {p} : AppliedTo(q)

C9_Witness ==
    /\ pc = "done"
    /\ \E p \in Paths, q \in Paths :
          /\ RejectedBinary(p)
          /\ q # p
          /\ Logged("modify", q)
          /\ updated_files[q] # original_files[q]

\* C10: a patch that does not apply is reported for its path and does not end
\* the run: the patches of the other paths are applied and the output
\* container is written.
C10_FailureDoesNotAbort ==
    (pc \in {"done", "aborted"} /\ \E p \in Paths : Logged("raise", p)) =>
        /\ out_written
        /\ remaining = <<>>

\* C11: source unavailable is fatal.  When an input container of the running
\* program cannot be opened, the program stops before it opens its output: the
\* patch container is not opened, the output container is not written and no
\* patch is applied.
C11_SourceUnavailableFatal ==
    unavailable # {} =>
        /\ pc \in {"update_context", "updater", "unavailable"}
        /\ ~patch_opened
        /\ ~out_written
        /\ out_file = <<>>
        /\ log = <<>>
        /\ updated_files = EmptySnapshot
        /\ patches_to_apply = NoPatches

C11_Witness ==
    /\ pc = "unavailable"
    /\ unavailable = {"update_md"}
    /\ original_files # EmptySnapshot
    /\ ~out_written

\* The lines of a container that parse_md_constructor takes for headers.
HeaderLines(doc) == {i \in 1..Len(doc) : header_pattern(StripLine(doc[i])).matched}

HeaderAt(doc, i) == header_pattern(StripLine(doc[i]))

\* The first line after line i that opens a block, 0 when there is none.
OpeningAfter(doc, i) ==
    IF \E j \in (i + 1)..Len(doc) : StartsWithFence(StripLine(doc[j]))
    THEN CHOOSE j \in (i + 1)..Len(doc) :
             /\ StartsWithFence(StripLine(doc[j]))
             /\ \A k \in (i + 1)..(j - 1) : ~StartsWithFence(StripLine(doc[k]))
    ELSE 0

\* The first line after line j that is the closing fence, 0 when there is none.
ClosingAfter(doc, j) ==
    IF \E k \in (j + 1)..Len(doc) : StripLine(doc[k]) = Fence
    THEN CHOOSE k \in (j + 1)..Len(doc) :
             /\ StripLine(doc[k]) = Fence
             /\ \A l \in (j + 1)..(k - 1) : StripLine(doc[l]) # Fence
    ELSE 0

\* C12: best-effort decoding.  When the last header of the container is a
\* FILE header and no complete block follows it (no opening fence, or an
\* opening fence and no closing one), the snapshot returned has the header's
\* path as a text entry; when the block was opened, its text is what follows
\* the opening fence up to the end of the input.
C12_BestEffortDecoding ==
    pc = "parsed" =>
        \A i \in HeaderLines(out_file) :
            (/\ HeaderAt(out_file, i).file_type = "FILE"
             /\ \A k \in HeaderLines(out_file) : k <= i)
            => LET path == HeaderAt(out_file, i).path
                   j == OpeningAfter(out_file, i)
               IN  IF j = 0
                   THEN path \in DOMAIN files /\ ~files[path].bin
                   ELSE ClosingAfter(out_file, j) = 0
                        => /\ path \in DOMAIN files
                           /\ files[path]
                                 = Text(Join(SubSeq(out_file, j + 1, Len(out_file))))

\* C16: a container without a header line, the empty one included, decodes
\* to the empty snapshot, whatever fences and other lines it has; the parser
\* ends normally.
C16_HeaderlessIsEmpty ==
    HeaderLines(out_file) = {} =>
        /\ files = EmptySnapshot
        /\ pc # "unavailable"
        /\ pc = "parse" => current_file = ""

C16_Witness ==
    /\ pc = "parsed"
    /\ Len(out_file) >= 3
    /\ HeaderLines(out_file) = {}
    /\ \E i \in 1..Len(out_file) : StartsWithFence(out_file[i])
    /\ \E i \in 1..Len(out_file) : out_file[i] = "x"
    /\ files = EmptySnapshot

\* C18: inside an open block only the closing fence ends the block.  For a
\* container that starts with a FILE header and an opening fence, the text of
\* the header's path is every line up to the first closing fence, lines in
\* the form of a header included (no later line of the container names the
\* path again).
C18_OnlyFenceClosesBlock ==
    (/\ pc = "parsed"
     /\ Len(out_file) >= 3
     /\ HeaderAt(out_file, 1).file_type = "FILE"
     /\ StartsWithFence(StripLine(out_file[2]))
     /\ ClosingAfter(out_file, 2) # 0)
        => LET path == HeaderAt(out_file, 1).path
               k == ClosingAfter(out_file, 2)
           IN  (\A l \in HeaderLines(out_file) :
                    l > k => HeaderAt(out_file, l).path # path)
               => /\ path \in DOMAIN files
                  /\ files[path] = Text(Join(SubSeq(out_file, 3, k - 1)))

\* The states of the parser.
Scanning == current_file = "" /\ ~in_code_block

InHeader == current_file # "" /\ ~in_code_block

InBlock == current_file # "" /\ in_code_block

\* C20: the parser is in one of Scanning, InHeader and InBlock at every step
\* of the line loop (a block is never open without a current file), and a
\* SKIPPED (BINARY) header and a closing fence both take it to Scanning.
C20_ThreeStateMachine ==
    /\ [](Scanning \/ InHeader \/ InBlock)
    /\ [][(pc = "parse" /\ line_no' = line_no + 1) =>
            LET line == StripLine(out_file[line_no'])
            IN  /\ header_pattern(line).file_type = "SKIPPED (BINARY)" => Scanning'
                /\ (InBlock /\ line = Fence) => Scanning'
                /\ (InHeader /\ StartsWithFence(line)) => InBlock']_vars

C20_Witness ==
    /\ pc = "parse"
    /\ line_no = 4
    /\ out_file[1] = FileHeader("a.py")
    /\ out_file[2] = Fence \o "python"
    /\ out_file[3] = Fence
    /\ out_file[4] = BinaryHeader("b.txt")
    /\ Scanning
    /\ DOMAIN files = {"a.py", "b.txt"}

\* C13: binary entries through the codec.  For a snapshot with a binary
\* entry (its texts without trailing blank lines), the container written for
\* it decodes to the same paths, each binary path as the binary marker and
\* each text path with exactly its text.
C13_BinaryAndTextRoundTrip ==
    (/\ pc = "parsed"
     /\ \E p \in DOMAIN original_files : original_files[p].bin
     /\ NoTrailingBlankLines(original_files))
        => /\ DOMAIN files = DOMAIN original_files
           /\ \A p \in DOMAIN original_files :
                 IF original_files[p].bin THEN files[p] = Binary
                 ELSE files[p] = Text(original_files[p].text)

\* C14: no-op diff.  A path with the same entry in both snapshots has no
\* DIFF FOR block, while the loop runs and when it is over; a snapshot diffed
\* against itself gives an empty patch container.
C14_NoOpDiff ==
    pc \in {"diff", "updater"} =>
        /\ \A p \in DOMAIN original_files \cap DOMAIN modified_files :
              original_files[p] = modified_files[p] => BlocksFor(p) = {}
        /\ original_files = modified_files => patch_file = <<>>

C14_Witness ==
    /\ pc = "updater"
    /\ DOMAIN original_files = Paths
    /\ DOMAIN modified_files = Paths
    /\ original_files["a.py"] = modified_files["a.py"]
    /\ ~original_files["a.py"].bin
    /\ original_files["b.txt"] # modified_files["b.txt"]
    /\ BlocksFor("a.py") = {}
    /\ BlocksFor("b.txt") # {}

\* C15: the apply loop never changes the parsed base, and every path of the
\* base without a patch is in the result with its base entry.
C15_BaseNotMutated ==
    /\ [][original_files' = original_files]_vars
    /\ [](pc \in {"apply", "done"} =>
            \A q \in DOMAIN original_files \ DOMAIN patches_to_apply :
                /\ q \in DOMAIN updated_files
                /\ updated_files[q] = original_files[q])

C15_Witness ==
    /\ pc = "done"
    /\ updated_files # original_files
    /\ \E p \in DOMAIN original_files : Logged("delete", p)
    /\ \E p \in DOMAIN patches_to_apply : Logged("modify", p)
    /\ DOMAIN original_files = Paths

\* C17: smart_update_md called right after build_context_md, the directory
\* unchanged, reports no changes with files_processed = 0 and leaves the
\* context file as build_context_md wrote it, whatever the files hold.
C17_SmartUpdateOnlyOnChange ==
    pc = "smart_done" =>
        /\ result.message = "No changes detected"
        /\ result.files_processed = 0
        /\ writes = 1

\* s is t with some of its elements left out.
RECURSIVE IsSubsequence(_, _)
IsSubsequence(s, t) ==
    IF s = <<>> THEN TRUE
    ELSE IF t = <<>> THEN FALSE
    ELSE IF Head(s) = Head(t) THEN IsSubsequence(Tail(s), Tail(t))
    ELSE IsSubsequence(s, Tail(t))

\* C19: patch container fidelity.  _parse_md_patch on the container that
\* update_context wrote returns one entry per DIFF FOR header, and the text it
\* hands to the patch library for a path has every line of the unified diff
\* of that path, in order, whatever the diffed lines are.
C19_PatchContainerFidelity ==
    pc = "patch_parsed" =>
        /\ DOMAIN patch_texts = BlockPaths(patch_file)
        /\ \A i \in 1..Len(patch_file) :
              IsSubsequence([k \in 1..Len(patch_file[i].diff) |->
                                LineText(patch_file[i].diff[k])],
                            patch_texts[patch_file[i].path])

\* The FILE header lines of a file, by position.
FileHeadersOf(file) ==
    {k \in 1..Len(file.lines) : header_pattern(StripLine(file.lines[k])).file_type = "FILE"}

\* C21: in the file the sanitizer writes, every FILE header line is
\* immediately followed by a line that begins with the fence, also when
\* the header was the last line read.
C21_FileHeadersHaveBlock ==
    pc \in {"sanitized", "sanitized_twice"} =>
        \A k \in FileHeadersOf(output_path) :
            /\ k < Len(output_path.lines)
            /\ StartsWithFence(StripLine(output_path.lines[k + 1]))

C21_Witness ==
    /\ pc = "sanitized"
    /\ input_path.lines # <<>>
    /\ Last(input_path.lines) = FileHeader("a.py")
    /\ FileHeadersOf(output_path) # {}

\* C27: for a container in the layout the updater writes, the file the
\* sanitizer writes equals the file it read.
C27_IdentityOnWellFormed ==
    (/\ pc = "sanitized"
     /\ \E s \in Snapshots({"x"}, MaxLines) : input_path = [lines |-> Encode(s), nl |-> TRUE])
    => output_path = input_path

\* C28: sanitizing the file the sanitizer wrote returns it unchanged.
C28_Idempotent == pc = "sanitized_twice" => second_output = output_path

\* The hunk headers of the i-th block of the patch container.
HunkHeadersOf(i) ==
    {k \in 1..Len(patch_file[i].diff) : patch_file[i].diff[k].t = "@@"}

\* C22: every block the diff engine writes for a path that both snapshots
\* hold has at least one hunk, so the updater cannot read it as a delete
\* marker.
C22_ModificationHasHunk ==
    pc = "updater" =>
        \A p \in DOMAIN original_files \cap DOMAIN modified_files :
            \A i \in BlocksFor(p) : HunkHeadersOf(i) # {}

C25_NoOutputOnFailure ==
    (\E p \in Paths : Logged("raise", p)) =>
        /\ pc = "aborted"
        /\ ~out_written
        /\ out_file = <<>>

C25_Witness ==
    /\ pc = "aborted"
    /\ \E p \in Paths : Logged("raise", p)
    /\ updated_files # original_files
    /\ ~out_written

C26_ConfinedToOutputDir ==
    pc = "reconstructed" =>
        \A full_path \in created :
            /\ Len(full_path) > Len(OutDir)
            /\ SubSeq(full_path, 1, Len(OutDir)) = OutDir

====
